---- MODULE Spec2Model ----
(***************************************************************************)
(* Model of backend/main.py: the onboarding evaluator service.             *)
(*                                                                         *)
(* Text that the code inspects character by character (traffic_level,      *)
(* regions, logging_strategy, compliance, the completion service's         *)
(* content) is a sequence of one-character strings, so that lower(),       *)
(* upper(), strip(), startswith(), replace() and "in" are computed as      *)
(* Python computes them.  Text that the code only passes along             *)
(* (company_name, decision, issue texts, summaries) is a TLA+ string.      *)
(***************************************************************************)
EXTENDS Integers, Sequences, FiniteSets, TLC

VARIABLES
    file,       \* data/requests.json: [state: absent | invalid | written, items, size]
    pc,         \* per worker thread: position inside submit_request
    local,      \* per worker thread: req, all_items, stored of the running call
    nextId,     \* number of uuid4() values drawn so far
    returned,   \* what submit_request has returned so far, in order of return
    stable,     \* contents of the store file after its last completed write
    last        \* the last completed call: operation, inputs and response

vars == <<file, pc, local, nextId, returned, stable, last>>

-----------------------------------------------------------------------------
(* Bounds of the model *)

MaxListLen == 2
NumWorkers == 2
MaxSubmits == 3
MaxClock == 1

-----------------------------------------------------------------------------
(* Python str operations on character sequences *)

LowerLetters == <<"a","b","c","d","e","f","g","h","i","j","k","l","m",
                  "n","o","p","q","r","s","t","u","v","w","x","y","z">>
UpperLetters == <<"A","B","C","D","E","F","G","H","I","J","K","L","M",
                  "N","O","P","Q","R","S","T","U","V","W","X","Y","Z">>

lower_char(c) ==
    IF \E i \in 1..26 : UpperLetters[i] = c
    THEN LowerLetters[CHOOSE i \in 1..26 : UpperLetters[i] = c]
    ELSE c

upper_char(c) ==
    IF \E i \in 1..26 : LowerLetters[i] = c
    THEN UpperLetters[CHOOSE i \in 1..26 : LowerLetters[i] = c]
    ELSE c

lower(s) == [i \in 1..Len(s) |-> lower_char(s[i])]

upper(s) == [i \in 1..Len(s) |-> upper_char(s[i])]

\* sub in s
contains(s, sub) ==
    \E i \in 1..(Len(s) - Len(sub) + 1) : SubSeq(s, i, i + Len(sub) - 1) = sub

startswith(s, prefix) ==
    /\ Len(s) >= Len(prefix)
    /\ SubSeq(s, 1, Len(prefix)) = prefix

\* s.strip(chars): drop the leading and trailing characters that are in chars
RECURSIVE lstrip_chars(_, _)
lstrip_chars(s, chars) ==
    IF s # <<>> /\ Head(s) \in chars THEN lstrip_chars(Tail(s), chars) ELSE s

RECURSIVE rstrip_chars(_, _)
rstrip_chars(s, chars) ==
    IF s # <<>> /\ s[Len(s)] \in chars
    THEN rstrip_chars(SubSeq(s, 1, Len(s) - 1), chars)
    ELSE s

strip_chars(s, chars) == rstrip_chars(lstrip_chars(s, chars), chars)

Whitespace == {" ", "\t", "\n", "\r"}

\* s.strip()
strip(s) == strip_chars(s, Whitespace)

\* s.replace(old, ""): left to right, non-overlapping
RECURSIVE remove_all(_, _)
remove_all(s, old) ==
    IF Len(s) < Len(old) THEN s
    ELSE IF SubSeq(s, 1, Len(old)) = old
         THEN remove_all(SubSeq(s, Len(old) + 1, Len(s)), old)
         ELSE <<Head(s)>> \o remove_all(Tail(s), old)

-----------------------------------------------------------------------------
(* Outcome of a Python call: a returned value or a raised exception *)

Return(v) == [kind |-> "return", value |-> v]
Raise(e) == [kind |-> "raise", exc |-> e]

-----------------------------------------------------------------------------
(* Rule engine *)

HIGH == <<"h","i","g","h">>
APAC == <<"A","P","A","C">>
CENTRALIZED == <<"c","e","n","t","r","a","l","i","z","e","d">>
PCI == <<"P","C","I">>
ISO == <<"I","S","O">>

traffic_points(req) == IF lower(req.traffic_level) = HIGH THEN 20 ELSE 0

\* region_points with only the first region looked at
region_points_first_only(req) ==
    IF req.regions # <<>> /\ upper(req.regions[1]) = APAC THEN 10 ELSE 0

region_points(req) ==
    IF \E i \in 1..Len(req.regions) : upper(req.regions[i]) = APAC THEN 10 ELSE 0

waf_points(req) == IF ~req.has_waf THEN 30 ELSE 0

mfa_points(req) == IF ~req.has_mfa_for_admins THEN 25 ELSE 0

logging_points(req) ==
    IF ~contains(lower(req.logging_strategy), CENTRALIZED) THEN 15 ELSE 0

compliance_points(req) ==
    IF ~(\E i \in 1..Len(req.compliance) :
            \/ contains(upper(req.compliance[i]), PCI)
            \/ contains(upper(req.compliance[i]), ISO))
    THEN 20 ELSE 0

rule_score(req) ==
    traffic_points(req) + region_points(req) + waf_points(req)
        + mfa_points(req) + logging_points(req) + compliance_points(req)

rule_issues(req) ==
    (IF waf_points(req) # 0
        THEN <<"No WAF in front of critical applications.">> ELSE <<>>)
    \o (IF mfa_points(req) # 0
        THEN <<"MFA is not enabled for admin accounts.">> ELSE <<>>)
    \o (IF logging_points(req) # 0
        THEN <<"Logging does not appear to be clearly centralized.">> ELSE <<>>)
    \o (IF compliance_points(req) # 0
        THEN <<"No major compliance frameworks (PCI/ISO) are listed.">> ELSE <<>>)

\* rule_decision with the first threshold off by one
rule_decision_inclusive(score) ==
    IF score <= 30 THEN "approve"
    ELSE IF score < 60 THEN "needs_review"
    ELSE "reject"

rule_decision(score) ==
    IF score < 30 THEN "approve"
    ELSE IF score < 60 THEN "needs_review"
    ELSE "reject"

rule_summary(score, issues) ==
    "Rule-based evaluation score " \o ToString(score) \o " with "
        \o ToString(Len(issues)) \o " issue(s)."

evaluate_with_rules(req) ==
    LET score == rule_score(req)
        issues == rule_issues(req)
    IN  [decision |-> rule_decision(score),
         risk_score |-> score,
         issues |-> issues,
         summary |-> rule_summary(score, issues)]

-----------------------------------------------------------------------------
(* JSON values, as json.loads builds them *)

JStr(s) == [t |-> "str", s |-> s]
JInt(i) == [t |-> "int", i |-> i]
JFloat(n) == [t |-> "float", tenths |-> n]      \* the number n / 10
JNull == [t |-> "null"]
JList(l) == [t |-> "list", l |-> l]

\* int(x) of a Python value that came out of json.loads
IntLiterals == {<<"85", 85>>, <<"150", 150>>}

py_int(v) ==
    CASE v.t = "int" -> Return(v.i)
      [] v.t = "float" ->
            Return(IF v.tenths >= 0 THEN v.tenths \div 10 ELSE -((-v.tenths) \div 10))
      [] v.t = "str" ->
            IF \E p \in IntLiterals : p[1] = v.s
            THEN Return((CHOOSE p \in IntLiterals : p[1] = v.s)[2])
            ELSE Raise("ValueError")
      [] OTHER -> Raise("TypeError")

\* pydantic's check of a value against the field type str
is_str(v) == v.t = "str"

\* pydantic's check of a value against the field type List[str]
is_list_of_str(v) ==
    /\ v.t = "list"
    /\ \A i \in 1..Len(v.l) : is_str(v.l[i])

\* The member lists (the text between the braces of a JSON object) the
\* completion service answers with.  A member list is one symbol of the
\* content's alphabet: it holds no backquote and no raw newline.
MemberLists == {"M_ok", "M_out_of_range", "M_unknown_decision", "M_numeric_text",
                "M_float", "M_negative", "M_bad_score", "M_null_score",
                "M_decision_not_str", "M_issues_not_list", "M_only_summary"}

members(m) ==
    CASE m = "M_ok" ->
            [k \in {"decision", "risk_score", "issues", "summary"} |->
                CASE k = "decision" -> JStr("approve")
                  [] k = "risk_score" -> JInt(10)
                  [] k = "issues" -> JList(<<>>)
                  [] k = "summary" -> JStr("Looks fine.")]
      [] m = "M_out_of_range" ->
            [k \in {"decision", "risk_score"} |->
                IF k = "decision" THEN JStr("reject") ELSE JInt(150)]
      [] m = "M_unknown_decision" ->
            [k \in {"decision", "risk_score"} |->
                IF k = "decision" THEN JStr("escalate") ELSE JInt(40)]
      [] m = "M_numeric_text" ->
            [k \in {"risk_score", "issues"} |->
                IF k = "risk_score" THEN JStr("85")
                ELSE JList(<<JStr("No WAF.")>>)]
      [] m = "M_float" ->
            [k \in {"risk_score"} |-> JFloat(729)]
      [] m = "M_negative" ->
            [k \in {"risk_score"} |-> JInt(-5)]
      [] m = "M_bad_score" ->
            [k \in {"risk_score"} |-> JStr("high")]
      [] m = "M_null_score" ->
            [k \in {"risk_score"} |-> JNull]
      [] m = "M_decision_not_str" ->
            [k \in {"decision"} |-> JInt(1)]
      [] m = "M_issues_not_list" ->
            [k \in {"issues"} |-> JStr("none")]
      [] m = "M_only_summary" ->
            [k \in {"summary"} |-> JStr("Needs a closer look.")]

EmptyObject == [k \in {} |-> JNull]

is_whitespace(c) == c \in Whitespace
not_whitespace(c) == ~is_whitespace(c)

\* json.loads(s): whitespace between tokens is insignificant
json_loads(s) ==
    LET toks == SelectSeq(s, not_whitespace)
    IN  IF toks = <<"{", "}">> THEN Return([t |-> "object", o |-> EmptyObject])
        ELSE IF Len(toks) = 3 /\ toks[1] = "{" /\ toks[3] = "}"
                /\ toks[2] \in MemberLists
             THEN Return([t |-> "object", o |-> members(toks[2])])
        ELSE IF toks = <<"[", "]">> THEN Return(JList(<<>>))
        ELSE Raise("JSONDecodeError")

\* data.get(key, default)
dict_get(o, key, default) == IF key \in DOMAIN o THEN o[key] ELSE default

-----------------------------------------------------------------------------
(* LLM evaluator *)

\* The backquote character (SANY does not lex a backquote inside a string)
BACKTICK == "<backquote>"
FENCE == <<BACKTICK, BACKTICK, BACKTICK>>
JSON_LF == <<"j", "s", "o", "n", "\n">>
JSON_CRLF == <<"j", "s", "o", "n", "\r", "\n">>

FALLBACK_SUMMARY ==
    "AI scoring is currently running in limited demo mode. "
    \o "The shared API key does not have paid token credits, so this environment "
    \o "uses the rule-based scoring engine. "
    \o "In real-world deployments, companies use their own paid OpenAI or "
    \o "enterprise LLM accounts, enabling the full AI-powered evaluation."

\* Names bound at module level in main.py, and the names local to
\* evaluate_with_gpt inside its except block
ModuleNames == {"OPENAI_API_KEY", "client", "DATA_DIR", "REQUESTS_FILE",
                "NetworkRequest", "EvaluationResult", "StoredRequest",
                "_load_requests", "_save_requests", "evaluate_with_rules",
                "evaluate_with_gpt", "app", "healthz", "submit_request",
                "evaluate_rules_endpoint", "evaluate_ai_endpoint",
                "list_requests", "get_request"}
GptLocalNames == {"req", "req_json", "system_prompt", "user_prompt", "e"}

\* strip_fence without the removal of the language tag
strip_fence_keeps_tag(content) ==
    IF startswith(content, FENCE)
    THEN strip_chars(content, {BACKTICK})
    ELSE content

\* lines 177-179: the handling of a fenced answer
strip_fence(content) ==
    IF startswith(content, FENCE)
    THEN remove_all(remove_all(strip_chars(content, {BACKTICK}), JSON_LF), JSON_CRLF)
    ELSE content

\* lines 183-188: EvaluationResult(...) from the parsed data
build_result(data) ==
    IF data.t # "object" THEN Raise("AttributeError")
    ELSE LET decision == dict_get(data.o, "decision", JStr("needs_review"))
             score == py_int(dict_get(data.o, "risk_score", JInt(50)))
             issues == dict_get(data.o, "issues", JList(<<>>))
             summary == dict_get(data.o, "summary", JStr("No summary provided."))
         IN  IF score.kind = "raise" THEN score
             ELSE IF ~(is_str(decision) /\ is_list_of_str(issues) /\ is_str(summary))
                  THEN Raise("ValidationError")
             ELSE Return([decision |-> decision.s,
                          risk_score |-> score.value,
                          issues |-> [i \in 1..Len(issues.l) |-> issues.l[i].s],
                          summary |-> summary.s])

\* lines 164-188: the body of the try block
gpt_try(completion) ==
    IF completion.kind = "error" THEN Raise("APIError")
    ELSE IF completion.kind = "none" THEN Raise("AttributeError")
    ELSE LET data == json_loads(strip_fence(strip(completion.text)))
         IN  IF data.kind = "raise" THEN data ELSE build_result(data.value)

\* lines 189-203: the except block.  Line 193 looks up rule_based_evaluation
\* and request before anything else happens.
gpt_except(req) ==
    IF {"rule_based_evaluation", "request"} \subseteq (ModuleNames \cup GptLocalNames)
    THEN Return([evaluate_with_rules(req) EXCEPT !.summary = FALLBACK_SUMMARY])
    ELSE Raise("NameError")

evaluate_with_gpt(req, completion) ==
    LET r == gpt_try(completion)
    IN  IF r.kind = "raise" THEN gpt_except(req) ELSE r

-----------------------------------------------------------------------------
(* Request store: data/requests.json *)

\* Python's None
None == [t |-> "None"]

\* datetime.isoformat() / datetime.fromisoformat(): a datetime is [dt |-> n],
\* its ISO-8601 text is [iso |-> n]
isoformat(d) == [iso |-> d.dt]
fromisoformat(s) == [dt |-> s.iso]

\* str(uuid4()) of the k-th draw
uuid_str(k) == [uuid |-> k]

\* line 245: json.loads(stored.model_dump_json())
model_dump_json(stored) ==
    [id |-> stored.id,
     created_at |-> isoformat(stored.created_at),
     request |-> stored.request,
     evaluation |-> IF stored.evaluation = None THEN JNull ELSE stored.evaluation]

\* StoredRequest.model_validate(item)
model_validate(item) ==
    [id |-> item.id,
     created_at |-> fromisoformat(item.created_at),
     request |-> item.request,
     evaluation |-> IF item.evaluation = JNull THEN None ELSE item.evaluation]

\* The store file: whether it exists and parses, the records it holds, and
\* its length (in records' worth of bytes)
NoFile == [state |-> "absent", items |-> <<>>, size |-> 0]
\* An empty file, or one that does not hold one complete JSON document
InvalidFile(size) == [state |-> "invalid", items |-> <<>>, size |-> size]
Written(items) == [state |-> "written", items |-> items, size |-> Len(items)]

\* lines 74-78
load_requests(f) ==
    CASE f.state = "absent" -> Return(<<>>)
      [] f.state = "written" -> Return(f.items)
      [] f.state = "invalid" -> Raise("JSONDecodeError")

\* line 82: open("w") truncates the file
save_open(f) == InvalidFile(0)

\* line 83 and the close of the file: the document is written from offset 0
\* of this handle.  If another handle has written a longer document since
\* this one truncated the file, the tail of that document stays behind it.
\* (The records of the bounded inputs serialise to the same number of bytes,
\* so the longer document is the one with more records.)
save_dump(f, items) ==
    IF f.size > Len(items)
    THEN InvalidFile(f.size)
    ELSE Written(items)

\* lines 266-267
list_requests(f) ==
    LET all_items == load_requests(f)
    IN  IF all_items.kind = "raise" THEN all_items
        ELSE Return([i \in 1..Len(all_items.value) |->
                        model_validate(all_items.value[i])])

\* lines 273-277
get_request(f, request_id) ==
    LET all_items == load_requests(f)
    IN  IF all_items.kind = "raise" THEN all_items
        ELSE LET hits == {i \in 1..Len(all_items.value) :
                            all_items.value[i].id = request_id}
             IN  IF hits = {} THEN Raise("HTTP404")
                 ELSE Return(model_validate(
                        all_items.value[CHOOSE i \in hits : \A j \in hits : i <= j]))

-----------------------------------------------------------------------------
(* Inputs *)

RECURSIVE SeqsUpTo(_, _)
SeqsUpTo(S, n) ==
    IF n = 0 THEN {<<>>}
    ELSE SeqsUpTo(S, n - 1) \cup [1..n -> S]

NetworkRequest(name, traffic, regions, waf, mfa, logging, compliance) ==
    [company_name |-> name,
     industry |-> "finance",
     contact_email |-> "ops@example.com",
     regions |-> regions,
     traffic_level |-> traffic,
     cloud_providers |-> <<"AWS">>,
     critical_apps |-> <<"Online banking portal">>,
     has_waf |-> waf,
     has_mfa_for_admins |-> mfa,
     logging_strategy |-> logging,
     compliance |-> compliance]

TrafficLevels == {<<"h","i","g","h">>, <<"H","i","g","h">>, <<"l","o","w">>}
RegionNames == {<<"a","p","a","c">>, <<"A","P","A","C","2">>, <<"E","M","E","A">>}
LoggingStrategies == {<<"C","e","n","t","r","a","l","i","z","e","d">>,
                      <<"d","e","c","e","n","t","r","a","l","i","z","e","d">>,
                      <<"l","o","c","a","l">>}
ComplianceNames == {<<"p","c","i","-","d","s","s">>, <<"I","s","o","2","7","0","0","1">>,
                    <<"S","O","C","2">>}

\* Inputs of the rule engine
RuleRequests ==
    {NetworkRequest("Acme", t, r, w, m, l, c) :
        t \in TrafficLevels, r \in SeqsUpTo(RegionNames, MaxListLen),
        w \in BOOLEAN, m \in BOOLEAN, l \in LoggingStrategies,
        c \in SeqsUpTo(ComplianceNames, MaxListLen)}

\* Inputs of the LLM evaluator
AiRequests ==
    {NetworkRequest("Acme", t, <<>>, w, m, <<"l","o","c","a","l">>, <<>>) :
        t \in {<<"h","i","g","h">>, <<"l","o","w">>}, w \in BOOLEAN, m \in BOOLEAN}

\* Inputs of the store
StoreRequests ==
    {NetworkRequest(n, <<"l","o","w">>, <<>>, TRUE, FALSE, <<"l","o","c","a","l">>, <<>>) :
        n \in {"Acme", "Apex"}}

\* Answers of the completion service
ObjectTexts == {<<"{", "}">>} \cup {<<"{", m, "}">> : m \in MemberLists}

Tags == {<<"j","s","o","n">>, <<"J","S","O","N">>, <<"p","y">>}
Newlines == {<<"\n">>, <<"\r", "\n">>}

fenced(tag, nl, c) == FENCE \o tag \o nl \o c \o <<"\n">> \o FENCE

NonJsonTexts == {<<"s","o","r","r","y">>, <<>>, <<"{", "M_ok">>}

CompletionTexts ==
    ObjectTexts
    \cup {fenced(t, nl, c) : t \in Tags, nl \in Newlines, c \in ObjectTexts}
    \cup {fenced(<<>>, <<"\n">>, c) : c \in ObjectTexts}
    \cup {<<" ">> \o c \o <<"\n">> : c \in ObjectTexts}
    \cup {<<"{", "\n", " ", "M_ok", "\n", "}">>, <<"[", "]">>}
    \cup NonJsonTexts

Completions ==
    {[kind |-> "error"], [kind |-> "none"]}
    \cup {[kind |-> "text", text |-> c] : c \in CompletionTexts}

StoreCompletions ==
    {[kind |-> "error"], [kind |-> "text", text |-> <<"{", "M_ok", "}">>]}

Workers == 1..NumWorkers
Times == 0..MaxClock

-----------------------------------------------------------------------------
(* Endpoints *)

Init ==
    /\ file = NoFile
    /\ pc = [w \in Workers |-> "idle"]
    /\ local = [w \in Workers |-> None]
    /\ nextId = 0
    /\ returned = <<>>
    /\ stable = <<>>
    /\ last = [op |-> "none"]

storeVars == <<file, pc, local, nextId, returned, stable>>

\* POST /evaluate/rules
evaluate_rules_endpoint(reqs) ==
    \E req \in reqs :
        /\ last' = [op |-> "evaluate_rules", req |-> req,
                    result |-> Return(evaluate_with_rules(req))]
        /\ UNCHANGED storeVars

\* POST /evaluate/ai
evaluate_ai_endpoint(reqs, completions) ==
    \E req \in reqs, completion \in completions :
        /\ last' = [op |-> "evaluate_ai", req |-> req, completion |-> completion,
                    result |-> evaluate_with_gpt(req, completion)]
        /\ UNCHANGED storeVars

\* GET /requests
list_requests_endpoint ==
    /\ last' = [op |-> "list_requests", result |-> list_requests(file)]
    /\ UNCHANGED storeVars

\* GET /requests/{request_id}
get_request_endpoint ==
    \E k \in 1..MaxSubmits :
        /\ last' = [op |-> "get_request", id |-> uuid_str(k),
                    result |-> get_request(file, uuid_str(k))]
        /\ UNCHANGED storeVars

\* POST /submit, line 233: all_items = _load_requests()
submit_load(w) ==
    /\ pc[w] = "idle"
    /\ nextId + Cardinality({v \in Workers : pc[v] = "loaded"}) < MaxSubmits
    /\ \E req \in StoreRequests :
        LET all_items == load_requests(file)
        IN  IF all_items.kind = "raise"
            THEN /\ last' = [op |-> "submit_request", req |-> req, result |-> all_items]
                 /\ UNCHANGED storeVars
            ELSE /\ pc' = [pc EXCEPT ![w] = "loaded"]
                 /\ local' = [local EXCEPT ![w] =
                        [req |-> req, all_items |-> all_items.value,
                         seen |-> Len(returned)]]
                 /\ UNCHANGED <<file, nextId, returned, stable, last>>

\* POST /submit, lines 235-245: draw the id and the time, build the record,
\* append it to the list that was loaded
submit_append(w) ==
    /\ pc[w] = "loaded"
    /\ \E now \in Times :
        LET stored == [id |-> uuid_str(nextId + 1),
                       created_at |-> fromisoformat(isoformat([dt |-> now])),
                       request |-> local[w].req,
                       evaluation |-> None]
        IN  /\ nextId' = nextId + 1
            /\ local' = [local EXCEPT ![w] =
                    [req |-> local[w].req,
                     all_items |-> Append(local[w].all_items, model_dump_json(stored)),
                     seen |-> local[w].seen,
                     stored |-> stored]]
    /\ pc' = [pc EXCEPT ![w] = "appended"]
    /\ UNCHANGED <<file, returned, stable, last>>

\* POST /submit, line 246 (line 82): open the store file for writing
submit_save_open(w) ==
    /\ pc[w] = "appended"
    /\ file' = save_open(file)
    /\ pc' = [pc EXCEPT ![w] = "opened"]
    /\ UNCHANGED <<local, nextId, returned, stable, last>>

\* POST /submit, line 246 (line 83) and line 248: write the list, return stored
submit_save_dump(w) ==
    /\ pc[w] = "opened"
    /\ file' = save_dump(file, local[w].all_items)
    /\ stable' = IF file'.state = "written" THEN file'.items ELSE stable
    /\ returned' = Append(returned, [stored |-> local[w].stored, req |-> local[w].req,
                                     seen |-> local[w].seen])
    /\ last' = [op |-> "submit_request", req |-> local[w].req,
                result |-> Return(local[w].stored)]
    /\ pc' = [pc EXCEPT ![w] = "idle"]
    /\ local' = [local EXCEPT ![w] = None]
    /\ UNCHANGED nextId

submit_request(w) ==
    \/ submit_load(w)
    \/ submit_append(w)
    \/ submit_save_open(w)
    \/ submit_save_dump(w)

Next ==
    \/ \E w \in Workers : submit_request(w)
    \/ evaluate_rules_endpoint(StoreRequests)
    \/ evaluate_ai_endpoint(StoreRequests, StoreCompletions)
    \/ list_requests_endpoint
    \/ get_request_endpoint

Spec == Init /\ [][Next]_vars

\* The two evaluation paths on their own, over the full sets of inputs: one
\* call per behaviour, since neither reads anything an earlier call wrote
first_rules_call ==
    /\ last.op = "none"
    /\ evaluate_rules_endpoint(RuleRequests)

first_ai_call ==
    /\ last.op = "none"
    /\ evaluate_ai_endpoint(AiRequests, Completions)

NextEval ==
    \/ first_rules_call
    \/ first_ai_call

SpecEval == Init /\ [][NextEval]_vars

-----------------------------------------------------------------------------
(* Claims about the two evaluation paths, checked under SpecEval *)

IsRulesCall == last.op = "evaluate_rules"
IsAiCall == last.op = "evaluate_ai"
Decisions == {"approve", "needs_review", "reject"}

\* C1: evaluate_with_gpt returns an EvaluationResult for every request and
\* every outcome of the completion service; it never raises.
C1_GptNeverRaises == IsAiCall => last.result.kind = "return"

\* The completion service raised, or its content is not JSON
ServiceFailed ==
    /\ IsAiCall
    /\ \/ last.completion.kind = "error"
       \/ /\ last.completion.kind = "text"
          /\ last.completion.text \in NonJsonTexts

\* C2: when the completion service raises or returns non-JSON content, the
\* result has the rule engine's decision, risk_score and issues for the same
\* request, and the fixed fallback message as its summary.
C2_FallbackEqualsRules ==
    ServiceFailed =>
        LET rules == evaluate_with_rules(last.req)
        IN  /\ last.result = Return([decision |-> rules.decision,
                                     risk_score |-> rules.risk_score,
                                     issues |-> rules.issues,
                                     summary |-> FALLBACK_SUMMARY])
            /\ FALLBACK_SUMMARY # rules.summary

\* The triggered conditions of a request, read off the bounded inputs: of the
\* traffic levels only high and High are "high" in any case, of the region
\* names only apac, of the logging strategies only local lacks "centralized",
\* of the compliance names only SOC2 holds neither PCI nor ISO.
HighTraffic(r) == r.traffic_level \in {<<"h","i","g","h">>, <<"H","i","g","h">>}
InApac(r) == \E i \in 1..Len(r.regions) : r.regions[i] = <<"a","p","a","c">>
NotCentralized(r) == r.logging_strategy = <<"l","o","c","a","l">>
NoFramework(r) == \A i \in 1..Len(r.compliance) : r.compliance[i] = <<"S","O","C","2">>
Points(b, n) == IF b THEN n ELSE 0

\* C3: the rule engine's risk_score is the sum of the points of exactly the
\* triggered conditions (high traffic 20, APAC 10, no WAF 30, no MFA 25,
\* logging not centralized 15, no PCI/ISO framework 20), and it reports one
\* issue per triggered condition among WAF, MFA, logging and compliance.
C3_ScoreIsSumOfTriggered ==
    IsRulesCall =>
        LET r == last.req
            res == last.result.value
        IN  /\ res.risk_score =
                    Points(HighTraffic(r), 20) + Points(InApac(r), 10)
                    + Points(~r.has_waf, 30) + Points(~r.has_mfa_for_admins, 25)
                    + Points(NotCentralized(r), 15) + Points(NoFramework(r), 20)
            /\ Len(res.issues) =
                    Points(~r.has_waf, 1) + Points(~r.has_mfa_for_admins, 1)
                    + Points(NotCentralized(r), 1) + Points(NoFramework(r), 1)

\* A call in which some conditions trigger and others do not: mixed-case
\* High traffic, apac after another region, WAF present, no MFA, logging
\* "decentralized", only SOC2 listed
C3_Witness ==
    /\ IsRulesCall
    /\ last.req.traffic_level = <<"H","i","g","h">>
    /\ last.req.regions = <<<<"E","M","E","A">>, <<"a","p","a","c">>>>
    /\ last.req.has_waf /\ ~last.req.has_mfa_for_admins
    /\ last.req.logging_strategy = <<"d","e","c","e","n","t","r","a","l","i","z","e","d">>
    /\ last.req.compliance = <<<<"S","O","C","2">>>>
    /\ last.result.value.risk_score = 75
    /\ Len(last.result.value.issues) = 2

\* C4: the rule engine's decision is determined by its risk_score alone:
\* approve exactly below 30, needs_review exactly from 30 to 59, reject
\* exactly from 60.
C4_DecisionByThreshold ==
    IsRulesCall =>
        LET res == last.result.value
        IN  /\ res.decision = "approve" <=> res.risk_score < 30
            /\ res.decision = "needs_review" <=>
                    (30 <= res.risk_score /\ res.risk_score < 60)
            /\ res.decision = "reject" <=> res.risk_score >= 60

\* A call that lands on the boundary 30
C4_Witness ==
    /\ IsRulesCall
    /\ last.result.value.risk_score = 30
    /\ last.result.value.decision = "needs_review"

\* A call that lands on the boundary 60
C4_WitnessReject ==
    /\ IsRulesCall
    /\ last.result.value.risk_score = 60
    /\ last.result.value.decision = "reject"

\* C5: every EvaluationResult either path returns has 0 <= risk_score <= 100.
C5_ScoreInRange ==
    ((IsRulesCall \/ IsAiCall) /\ last.result.kind = "return") =>
        (0 <= last.result.value.risk_score /\ last.result.value.risk_score <= 100)

\* C6: every EvaluationResult either path returns has a decision among
\* approve, needs_review and reject.
C6_DecisionInClosedSet ==
    ((IsRulesCall \/ IsAiCall) /\ last.result.kind = "return") =>
        last.result.value.decision \in Decisions

JSON_TAG == <<"j","s","o","n">>

AsText(c) == [kind |-> "text", text |-> c]

\* C9 as stated: for every JSON object text c and every language tag t, the
\* answer c fenced with tag t gives the same result as the answer c itself.
C9_AnyTagParsesAlike ==
    (IsAiCall /\ last.completion.kind = "text") =>
        \A t \in Tags, nl \in Newlines, c \in ObjectTexts :
            last.completion.text = fenced(t, nl, c) =>
                last.result = evaluate_with_gpt(last.req, AsText(c))

\* C9 as amended: for every JSON object text c, the answer c fenced with the
\* lower-case tag json and a newline gives the same outcome as the answer c
\* itself, and what is left after the stripping is c.
C9_JsonTagParsesAlike ==
    (IsAiCall /\ last.completion.kind = "text") =>
        \A nl \in Newlines, c \in ObjectTexts :
            last.completion.text = fenced(JSON_TAG, nl, c) =>
                /\ last.result = evaluate_with_gpt(last.req, AsText(c))
                /\ strip(strip_fence(strip(last.completion.text))) = c

\* A fenced, json-tagged, well-formed answer that was parsed
C9_Witness ==
    /\ IsAiCall
    /\ last.completion.kind = "text"
    /\ last.completion.text = fenced(JSON_TAG, <<"\n">>, <<"{", "M_ok", "}">>)
    /\ last.result = Return([decision |-> "approve", risk_score |-> 10,
                             issues |-> <<>>, summary |-> "Looks fine."])

-----------------------------------------------------------------------------
(* Claims about the store, checked under Spec *)

Quiescent == \A w \in Workers : pc[w] = "idle"

PositionOf(items, stored) == CHOOSE i \in 1..Len(items) : items[i] = stored

\* C7: once N submissions have completed and none is running, list_requests
\* returns exactly N records, one per submission; a submission that completed
\* before another began comes before it; no record has been lost.
C7_ListHasEverySubmission ==
    Quiescent =>
        LET res == list_requests(file)
        IN  /\ res.kind = "return"
            /\ Len(res.value) = Len(returned)
            /\ \A k \in 1..Len(returned) :
                    \E i \in 1..Len(res.value) : res.value[i] = returned[k].stored
            /\ \A j, k \in 1..Len(returned) :
                    (j <= returned[k].seen) =>
                        PositionOf(res.value, returned[j].stored)
                            < PositionOf(res.value, returned[k].stored)

\* C8: once submit_request(r) has returned a record with id i, get_request(i)
\* returns a StoredRequest with id i, no evaluation and request r, whatever
\* other submissions happen (looked at outside the moments in which a save
\* has the file truncated).
C8_SubmitThenGet ==
    file.state # "invalid" =>
        \A k \in 1..Len(returned) :
            LET res == get_request(file, returned[k].stored.id)
            IN  /\ res.kind = "return"
                /\ res.value.id = returned[k].stored.id
                /\ res.value.evaluation = None
                /\ res.value.request = returned[k].req

\* C10: evaluate_rules_endpoint, evaluate_ai_endpoint, list_requests and
\* get_request leave the store unchanged; only submit_request changes it, and
\* each change of its contents is the append of exactly one record.
C10_OnlySubmitAppendsOne ==
    [][/\ (file' # file) => (\E w \in Workers : pc'[w] # pc[w])
       /\ (stable' # stable) =>
            (Len(stable') = Len(stable) + 1
                /\ SubSeq(stable', 1, Len(stable)) = stable)]_vars

\* The part of C10 about the read-only operations: a step that is no step of
\* submit_request leaves the store file as it is.
ReadOnlyOperationsKeepStore ==
    [][(\A w \in Workers : pc'[w] = pc[w] /\ local'[w] = local[w]) =>
            (file' = file /\ stable' = stable)]_vars

====
